---- MODULE Spec2Model ----
(***************************************************************************)
(* Seat reservation service: the Flask handlers of app.py (reserve,        *)
(* cancel, update_reservation_details, admin_resync) over the S3 store of  *)
(* s3_store.py (tables/tables.json with its ETag, the reservation objects, *)
(* the idempotency objects, and the per-process 5 second cache of          *)
(* get_all_reservations).                                                  *)
(*                                                                         *)
(* A request runs on one worker process (its own S3Store instance, hence   *)
(* its own cache and lock) and advances one S3 call at a time; every S3    *)
(* call is atomic on its own and nothing larger is.                        *)
(***************************************************************************)
EXTENDS Integers, FiniteSets, Sequences, TLC

\* ---------------------------------------------------------------- bounds
NumProcs   == 2      \* concurrent requests
NumWorkers == 2      \* worker processes (one S3Store each)
NumTables  == 1      \* tables in tables.json
Capacity   == 3      \* "total" of every table in the stored document
MaxRes     == 2      \* reservation ids (uuid4) handed out in one run
MaxOps     == 3      \* requests started in one run

\* ------------------------------------------------------ program constants
MAX_PER_BOOKING == 3
RETRIES         == 5

Procs   == 1..NumProcs
Workers == 1..NumWorkers
Tables  == 1..NumTables
Ids     == 1..MaxRes

\* payload values of a request
Logins     == {"alice", "Alice", "bob"}
Keys       == {"k1", "k2"}
SeatInputs == {0, 1, MAX_PER_BOOKING, MAX_PER_BOOKING + 1}

\* str.lower() on the login ids above
Lower(s) == IF s = "Alice" THEN "alice" ELSE s

VARIABLES
  tables,        \* S3 object tables/tables.json: table -> [total, seats_left]
  reservations,  \* S3 objects reservations/<date>/<id>.json, as a set of records
  ledger,        \* S3 objects idempotency/<key>.json: key -> reservation id, 0 = no object
  aged,          \* keys whose idempotency object was written more than 24 hours ago
  cache,         \* worker -> [present, items, valid]: all_reservations_cache / _expiry
  lock,          \* worker -> process holding all_reservations_lock, 0 = free
  nextId,        \* next uuid4 to be generated
  budget,        \* requests that may still start
  pc,            \* process -> place in its handler
  rq,            \* process -> the request it serves
  lv,            \* process -> the handler's local variables
  resp,          \* process -> the response it returned
  last           \* history: the booking the latest completed request made, if any

vars == <<tables, reservations, ledger, aged, cache, lock, nextId, budget,
          pc, rq, lv, resp, last>>

\* --------------------------------------------------------------- values
\* the document of init_tables, with Capacity seats per table
SeedTables == [t \in Tables |-> [total |-> Capacity, seats_left |-> Capacity]]

\* The ETag S3 returns for tables/tables.json is the MD5 digest of its body:
\* two reads return equal ETags exactly when the bodies are equal.
ETag(doc) == <<"md5", doc>>

NoList  == [present |-> FALSE, items |-> {}]
List(s) == [present |-> TRUE, items |-> s]

Reservation(id, t, n, login) ==
  [id |-> id, table_id |-> t, seats_taken |-> n, login_id |-> login]

\* history fields of a request: the store when it started, and the booking that
\* the request completed just before it made (its id, its payload, and seats_left
\* of its table before it)
NoPre  == [tables |-> SeedTables, reservations |-> {}, ledger |-> [k \in Keys |-> 0]]
NoLast == [rid |-> 0, left |-> 0, key |-> "", table_id |-> 0, seats |-> 0, raw |-> ""]

NoRq == [op |-> "none", worker |-> 0, table_id |-> 0, seats |-> 0, login |-> "",
         raw |-> "", key |-> "", rid |-> 0,
         pre |-> NoPre, prev |-> NoLast]

NoLv == [gret |-> "", cret |-> "", list |-> NoList, data |-> SeedTables,
         etag |-> ETag(SeedTables), found |-> {}, diff |-> 0,
         casop |-> "", cast |-> 0, casn |-> 0, i |-> 0,
         behind |-> 0,     \* history: who held the lock when the unlocked test failed
         applied |-> FALSE]  \* history: the seat change of an update went through

NoResp == [kind |-> "", code |-> 0, rid |-> 0]
Resp(kind, code)    == [kind |-> kind, code |-> code, rid |-> 0]
RespId(kind, code, id) == [kind |-> kind, code |-> code, rid |-> id]

RECURSIVE SumSeats(_)
SumSeats(rs) ==
  IF rs = {} THEN 0
  ELSE LET r == CHOOSE x \in rs : TRUE IN r.seats_taken + SumSeats(rs \ {r})

\* seats taken on table t according to a set of reservation records
Taken(rs, t) == SumSeats({r \in rs : r.table_id = t})

Min(a, b) == IF a < b THEN a ELSE b

Init ==
  /\ tables = SeedTables
  /\ reservations = {}
  /\ ledger = [k \in Keys |-> 0]
  /\ aged = {}
  /\ cache = [w \in Workers |-> [present |-> FALSE, items |-> {}, valid |-> FALSE]]
  /\ lock = [w \in Workers |-> 0]
  /\ nextId = 1
  /\ budget = MaxOps
  /\ pc = [p \in Procs |-> "idle"]
  /\ rq = [p \in Procs |-> NoRq]
  /\ lv = [p \in Procs |-> NoLv]
  /\ resp = [p \in Procs |-> NoResp]
  /\ last = NoLast

\* ------------------------------------------------- control of a handler
Goto(label, l)      == [pc |-> label, lv |-> l, resp |-> NoResp]
Finished(l, r)      == [pc |-> "done", lv |-> NoLv, resp |-> r]
\* call of S3Store.get_all_reservations, to continue at ret
GarCall(l, ret)     == Goto("gar_check", [l EXCEPT !.gret = ret])
\* call of S3Store.reserve_seats_cas / release_seats_cas, to continue at ret
CasCall(l, op, t, n, ret) ==
  Goto("cas_head", [l EXCEPT !.casop = op, !.cast = t, !.casn = n, !.i = 0,
                             !.cret = ret])

Apply(p, c) ==
  /\ pc'   = [pc EXCEPT ![p] = c.pc]
  /\ lv'   = [lv EXCEPT ![p] = c.lv]
  /\ resp' = [resp EXCEPT ![p] = c.resp]

\* s3_store.py check_login_id_exists, on the list get_all_reservations returned:
\* iterating None raises, and the except clause answers False
check_login_id_exists(list, login) ==
  IF ~list.present THEN FALSE
  ELSE \E r \in list.items : Lower(r.login_id) = Lower(login)

\* app.py _find_reservation_and_date: the first record of the list with that id
FindReservation(list, id) == {r \in list.items : r.id = id}

\* app.py 588-598: the login check of update_reservation_details, or straight on
\* to the write when the login id is unchanged
LoginPhase(q, l) ==
  LET r == CHOOSE x \in l.found : TRUE IN
  IF r.login_id # q.login THEN GarCall(l, "u_login") ELSE Goto("u_write", l)

\* app.py 593-596, 612-615: undo the seat change of update_reservation_details
Rollback(l, t, ret, r) ==
  IF l.diff > 0 THEN CasCall(l, "release", t, l.diff, ret)
  ELSE IF l.diff < 0 THEN CasCall(l, "reserve", t, 0 - l.diff, ret)
  ELSE Finished(l, r)

\* where a handler continues when get_all_reservations returns list
GarReturn(q, l, list) ==
  CASE l.gret = "b_login" ->
         \* app.py 406-408
         IF check_login_id_exists(list, q.login)
           THEN Finished(l, Resp("DuplicateLogin", 409))
           ELSE Goto("b_read", l)
    [] l.gret = "c_find" ->
         \* app.py 505-509; a None list raises out of the handler
         IF ~list.present THEN Finished(l, Resp("ServerError", 500))
         ELSE IF FindReservation(list, q.rid) = {}
           THEN Finished(l, Resp("NotFound", 404))
           ELSE Goto("c_delete", [l EXCEPT !.found = FindReservation(list, q.rid)])
    [] l.gret = "u_find" ->
         \* app.py 564-586
         IF ~list.present THEN Finished(l, Resp("ServerError", 500))
         ELSE IF FindReservation(list, q.rid) = {}
           THEN Finished(l, Resp("NotFound", 404))
           ELSE LET r  == CHOOSE x \in FindReservation(list, q.rid) : TRUE
                    l2 == [l EXCEPT !.found = {r}, !.diff = q.seats - r.seats_taken]
                IN IF l2.diff > 0
                     THEN CasCall(l2, "reserve", r.table_id, l2.diff, "u_seat")
                   ELSE IF l2.diff < 0
                     THEN CasCall(l2, "release", r.table_id, 0 - l2.diff, "u_seat")
                   ELSE LoginPhase(q, l2)
    [] l.gret = "u_login" ->
         \* app.py 591-598
         IF check_login_id_exists(list, q.login)
           THEN Rollback(l, (CHOOSE x \in l.found : TRUE).table_id, "u_dup",
                         Resp("DuplicateLogin", 409))
           ELSE Goto("u_write", l)
    [] OTHER ->
         \* app.py 643-653 (admin_resync)
         IF ~list.present THEN Finished(l, Resp("ServerError", 500))
         ELSE Goto("r_read", [l EXCEPT !.list = list])

\* the same, with a cancel that reports a failure when its release failed
CasReturn_strict(q, l, ok) ==
  CASE l.cret = "b_rb_save" -> Finished(l, Resp("SaveFailed", 500))
    [] l.cret = "b_rb_exc"  -> Finished(l, Resp("ServerError", 500))
    [] l.cret = "c_release" ->
         IF ok THEN Finished(l, Resp("Cancelled", 200))
               ELSE Finished(l, Resp("CancelFailed", 500))
    [] l.cret = "u_seat" ->
         IF l.diff > 0 /\ ~ok THEN Finished(l, Resp("NotEnoughOrConflict", 409))
         ELSE LoginPhase(q, [l EXCEPT !.applied = ok])
    [] l.cret = "u_dup" -> Finished(l, Resp("DuplicateLogin", 409))
    [] l.cret = "api" -> Finished(l, Resp(IF ok THEN "True" ELSE "False", 0))
    [] OTHER -> Finished(l, Resp("SaveFailed", 500))

\* where a handler continues when reserve_seats_cas / release_seats_cas returns ok
CasReturn(q, l, ok) ==
  CASE l.cret = "b_rb_save" -> Finished(l, Resp("SaveFailed", 500))      \* app.py 469-471
    [] l.cret = "b_rb_exc"  -> Finished(l, Resp("ServerError", 500))     \* app.py 480-490
    [] l.cret = "c_release" ->                                           \* app.py 514-521
         IF ok THEN Finished(l, Resp("Cancelled", 200))
               ELSE Finished(l, Resp("CancelledReleaseFailed", 200))
    [] l.cret = "u_seat" ->                                              \* app.py 576-586
         IF l.diff > 0 /\ ~ok THEN Finished(l, Resp("NotEnoughOrConflict", 409))
         ELSE LoginPhase(q, [l EXCEPT !.applied = ok])
    [] l.cret = "u_dup" -> Finished(l, Resp("DuplicateLogin", 409))      \* app.py 598
    [] l.cret = "api" ->                       \* s3_store.py 293, 301-307: True / False
         Finished(l, Resp(IF ok THEN "True" ELSE "False", 0))
    [] OTHER -> Finished(l, Resp("SaveFailed", 500))                     \* app.py 617

\* ---------------------------------------------------------- the cache
\* s3_store.py 35-38
ClearedCache == [present |-> FALSE, items |-> {}, valid |-> FALSE]
_clear_all_reservations_cache(w) == [cache EXCEPT ![w] = ClearedCache]

\* s3_store.py 151-154: the unlocked test of the expiry; a live entry is returned
gar_check(p) ==
  /\ pc[p] = "gar_check"
  /\ LET w == rq[p].worker IN
       IF cache[w].valid
         THEN Apply(p, GarReturn(rq[p], lv[p], [present |-> cache[w].present,
                                                 items |-> cache[w].items]))
         ELSE Apply(p, Goto("gar_lock", [lv[p] EXCEPT !.behind = lock[w]]))
  /\ UNCHANGED <<tables, reservations, ledger, aged, cache, lock, nextId, budget, rq,
                 last>>

\* s3_store.py 156-159: take the lock, test the expiry again
gar_lock(p) ==
  /\ pc[p] = "gar_lock"
  /\ LET w == rq[p].worker IN
       /\ lock[w] = 0
       /\ IF cache[w].valid
            THEN /\ Apply(p, GarReturn(rq[p], [lv[p] EXCEPT !.behind = 0],
                                       [present |-> cache[w].present,
                                        items |-> cache[w].items]))
                 /\ UNCHANGED lock
            ELSE /\ Apply(p, Goto("gar_fetch", [lv[p] EXCEPT !.behind = 0]))
                 /\ lock' = [lock EXCEPT ![w] = p]
  /\ UNCHANGED <<tables, reservations, ledger, aged, cache, nextId, budget, rq,
                 last>>

\* s3_store.py 162-176, 182-184: list and read reservations/; a ClientError of the
\* listing answers [] and leaves the cache as it is
gar_fetch(p, F) ==
  /\ pc[p] = "gar_fetch"
  /\ \E f \in F :
       /\ IF f
            THEN /\ Apply(p, GarReturn(rq[p], lv[p], List({})))
                 /\ lock' = [lock EXCEPT ![rq[p].worker] = 0]
            ELSE /\ Apply(p, Goto("gar_store", [lv[p] EXCEPT !.list = List(reservations)]))
                 /\ UNCHANGED lock
  /\ UNCHANGED <<tables, reservations, ledger, aged, cache, nextId, budget, rq, last>>

\* s3_store.py 178-181: install the list with a fresh expiry, leave the lock
gar_store(p) ==
  /\ pc[p] = "gar_store"
  /\ LET w == rq[p].worker IN
       /\ cache' = [cache EXCEPT ![w] = [present |-> TRUE, items |-> lv[p].list.items,
                                          valid |-> TRUE]]
       /\ lock' = [lock EXCEPT ![w] = 0]
       /\ Apply(p, GarReturn(rq[p], [lv[p] EXCEPT !.list = NoList], lv[p].list))
  /\ UNCHANGED <<tables, reservations, ledger, aged, nextId, budget, rq, last>>

\* CACHE_TTL_SECONDS have passed on worker w: all_reservations_expiry <= now
Expire(w) ==
  /\ cache[w].valid
  /\ cache' = [cache EXCEPT ![w].valid = FALSE]
  /\ UNCHANGED <<tables, reservations, ledger, aged, lock, nextId, budget, pc, rq, lv, resp,
                 last>>

\* -------------------------------------------- start and end of a request
\* bookings under way that have not generated their uuid4 yet
Pending == {q \in Procs : rq[q].op = "book" /\ pc[q] # "done" /\ rq[q].rid = 0}

\* the store as a request finds it (history; kept for the sequential system only)
Pre(seq) == IF seq THEN [tables |-> tables, reservations |-> reservations,
                         ledger |-> ledger]
            ELSE NoPre

Begin(p, q, c) ==
  /\ pc[p] = "idle"
  /\ budget > 0
  /\ budget' = budget - 1
  /\ rq' = [rq EXCEPT ![p] = q]
  /\ Apply(p, c)
  /\ UNCHANGED <<tables, reservations, ledger, aged, cache, lock, nextId, last>>

\* POST /api/reserve without the validation of the seat count
reserve_unchecked(p, seq, W) ==
  \E w \in W, t \in Tables, n \in SeatInputs, raw \in Logins, k \in Keys :
    /\ nextId + Cardinality(Pending) <= MaxRes
    /\ LET q == [NoRq EXCEPT !.op = "book", !.worker = w, !.table_id = t, !.seats = n,
                             !.raw = raw, !.login = Lower(raw), !.key = k,
                             !.pre = Pre(seq), !.prev = IF seq THEN last ELSE NoLast]
       IN Begin(p, q, Goto("b_idem", NoLv))

\* app.py 372-395: POST /api/reserve, up to the validation of the seat count
reserve(p, seq, W) ==
  \E w \in W, t \in Tables, n \in SeatInputs, raw \in Logins, k \in Keys :
    /\ nextId + Cardinality(Pending) <= MaxRes
    /\ LET q == [NoRq EXCEPT !.op = "book", !.worker = w, !.table_id = t, !.seats = n,
                             !.raw = raw, !.login = Lower(raw), !.key = k,
                             !.pre = Pre(seq), !.prev = IF seq THEN last ELSE NoLast]
       IN Begin(p, q, IF n < 1 \/ n > MAX_PER_BOOKING
                        THEN Finished(NoLv, Resp("BadRequest", 400))
                        ELSE Goto("b_idem", NoLv))

\* app.py 495-505: POST /api/cancel
cancel(p, seq, W) ==
  \E w \in W, id \in Ids :
    /\ pc[p] = "idle"
    /\ Begin(p, [NoRq EXCEPT !.op = "cancel", !.worker = w, !.rid = id,
                             !.pre = Pre(seq), !.prev = IF seq THEN last ELSE NoLast],
             GarCall(NoLv, "c_find"))

\* POST /api/admin/update_reservation without the validation of the seat count
update_reservation_details_unchecked(p, seq, W) ==
  \E w \in W, id \in Ids, n \in SeatInputs, raw \in Logins :
    /\ pc[p] = "idle"
    /\ Begin(p, [NoRq EXCEPT !.op = "update", !.worker = w, !.rid = id, !.seats = n,
                             !.raw = raw, !.login = Lower(raw),
                             !.pre = Pre(seq), !.prev = IF seq THEN last ELSE NoLast],
             GarCall(NoLv, "u_find"))

\* app.py 530-564: POST /api/admin/update_reservation, up to the lookup
update_reservation_details(p, seq, W) ==
  \E w \in W, id \in Ids, n \in SeatInputs, raw \in Logins :
    /\ pc[p] = "idle"
    /\ Begin(p, [NoRq EXCEPT !.op = "update", !.worker = w, !.rid = id, !.seats = n,
                             !.raw = raw, !.login = Lower(raw),
                             !.pre = Pre(seq), !.prev = IF seq THEN last ELSE NoLast],
             IF n < 1 \/ n > MAX_PER_BOOKING
               THEN Finished(NoLv, Resp("BadRequest", 400))
               ELSE GarCall(NoLv, "u_find"))

\* app.py 632-643: POST /api/admin/resync
admin_resync(p, seq, W) ==
  \E w \in W :
    /\ pc[p] = "idle"
    /\ Begin(p, [NoRq EXCEPT !.op = "resync", !.worker = w,
                             !.pre = Pre(seq), !.prev = IF seq THEN last ELSE NoLast],
             GarCall(NoLv, "r_list"))

\* the response has been sent; the process serves its next request
Finish(p, seq) ==
  /\ pc[p] = "done"
  /\ pc' = [pc EXCEPT ![p] = "idle"]
  /\ last' = IF seq /\ resp[p].kind = "Created"
               THEN [rid |-> resp[p].rid,
                     left |-> rq[p].pre.tables[rq[p].table_id].seats_left,
                     key |-> rq[p].key, table_id |-> rq[p].table_id,
                     seats |-> rq[p].seats, raw |-> rq[p].raw]
               ELSE NoLast
  /\ rq' = [rq EXCEPT ![p] = NoRq]
  /\ lv' = [lv EXCEPT ![p] = NoLv]
  /\ resp' = [resp EXCEPT ![p] = NoResp]
  /\ UNCHANGED <<tables, reservations, ledger, aged, cache, lock, nextId, budget>>

\* --------------------------------------------------------------- reserve
\* app.py 399-406 with s3_store.py get_idempotency_key: a ClientError other than
\* NoSuchKey is logged and answered None
get_idempotency_key(p, F) ==
  /\ pc[p] = "b_idem"
  /\ \E f \in F :
       /\ IF ~f /\ ledger[rq[p].key] # 0
            THEN Apply(p, Finished(lv[p], RespId("AlreadyProcessed", 200, ledger[rq[p].key])))
            ELSE Apply(p, GarCall(lv[p], "b_login"))
  /\ UNCHANGED <<tables, reservations, ledger, aged, cache, lock, nextId, budget, rq, last>>

\* app.py 412-426 with s3_store.py get_tables_data_with_etag
get_tables_data_with_etag(p, F) ==
  /\ pc[p] = "b_read"
  /\ \E f \in F :
       /\ LET t == rq[p].table_id IN
          IF f THEN Apply(p, Finished(lv[p], Resp("CannotReadTables", 500)))
          ELSE IF t \notin DOMAIN tables
            THEN Apply(p, Finished(lv[p], Resp("TableNotFound", 404)))
          ELSE IF tables[t].seats_left < rq[p].seats
            THEN Apply(p, Finished(lv[p], Resp("InsufficientSeats", 409)))
          ELSE Apply(p, Goto("b_head",
                 [lv[p] EXCEPT !.etag = ETag(tables),
                               !.data = [tables EXCEPT ![t].seats_left = @ - rq[p].seats]]))
  /\ UNCHANGED <<tables, reservations, ledger, aged, cache, lock, nextId, budget, rq, last>>

\* a test that also rejects a write whose ETag is still the one it was given
PreconditionFailed_spurious(etag_before, etag_now) == TRUE

\* s3_store.py 255-260: the test of save_tables_data_cas, on the ETag a HEAD returns now
PreconditionFailed(etag_before, etag_now) == etag_now # etag_before

\* app.py 430-440 with s3_store.py 254-260 (_head_tables_etag and the comparison);
\* any other ClientError reaches the handler's except clause, which releases seats
b_head(p, F) ==
  /\ pc[p] = "b_head"
  /\ \E f \in F :
       /\ IF f THEN Apply(p, CasCall(lv[p], "release", rq[p].table_id, rq[p].seats,
                                     "b_rb_exc"))
          ELSE IF PreconditionFailed(lv[p].etag, ETag(tables))
            THEN Apply(p, Finished(lv[p], Resp("Conflict", 409)))
          ELSE Apply(p, Goto("b_put", lv[p]))
  /\ UNCHANGED <<tables, reservations, ledger, aged, cache, lock, nextId, budget, rq, last>>

\* s3_store.py 262-269: the unconditional put_object of save_tables_data_cas
b_put(p, F) ==
  /\ pc[p] = "b_put"
  /\ \E f \in F :
       /\ IF f THEN /\ Apply(p, CasCall(lv[p], "release", rq[p].table_id, rq[p].seats,
                                        "b_rb_exc"))
                    /\ UNCHANGED tables
          ELSE /\ tables' = lv[p].data
               /\ Apply(p, Goto("b_save", lv[p]))
  /\ UNCHANGED <<reservations, ledger, aged, cache, lock, nextId, budget, rq, last>>

\* reserve that gives up without release_seats_cas when save_reservation fails
save_reservation_nocomp(p, F) ==
  /\ pc[p] = "b_save"
  /\ \E f \in F :
       /\ nextId' = nextId + 1
       /\ rq' = [rq EXCEPT ![p].rid = nextId]
       /\ IF f THEN /\ Apply(p, Finished(lv[p], Resp("SaveFailed", 500)))
                    /\ UNCHANGED <<reservations, cache>>
          ELSE /\ reservations' = reservations \cup
                    {Reservation(nextId, rq[p].table_id, rq[p].seats, rq[p].login)}
               /\ cache' = _clear_all_reservations_cache(rq[p].worker)
               /\ Apply(p, Goto("b_ledger", lv[p]))
  /\ UNCHANGED <<tables, ledger, aged, lock, budget, last>>

\* reserve that does not look at the result of save_reservation
save_reservation_unchecked(p, F) ==
  /\ pc[p] = "b_save"
  /\ \E f \in F :
       /\ nextId' = nextId + 1
       /\ rq' = [rq EXCEPT ![p].rid = nextId]
       /\ IF f THEN UNCHANGED <<reservations, cache>>
          ELSE /\ reservations' = reservations \cup
                    {Reservation(nextId, rq[p].table_id, rq[p].seats, rq[p].login)}
               /\ cache' = _clear_all_reservations_cache(rq[p].worker)
       /\ Apply(p, Goto("b_ledger", lv[p]))
  /\ UNCHANGED <<tables, ledger, aged, lock, budget, last>>

\* app.py 444-471 with s3_store.py save_reservation: the record is put under a
\* fresh uuid4 and this worker's cache is cleared; a ClientError answers False
save_reservation(p, F) ==
  /\ pc[p] = "b_save"
  /\ \E f \in F :
       /\ nextId' = nextId + 1
       /\ rq' = [rq EXCEPT ![p].rid = nextId]
       /\ IF f THEN /\ Apply(p, CasCall(lv[p], "release", rq[p].table_id, rq[p].seats,
                                        "b_rb_save"))
                    /\ UNCHANGED <<reservations, cache>>
          ELSE /\ reservations' = reservations \cup
                    {Reservation(nextId, rq[p].table_id, rq[p].seats, rq[p].login)}
               /\ cache' = _clear_all_reservations_cache(rq[p].worker)
               /\ Apply(p, Goto("b_ledger", lv[p]))
  /\ UNCHANGED <<tables, ledger, aged, lock, budget, last>>

\* app.py 459-464 with s3_store.py save_idempotency_key: its result is not looked at
save_idempotency_key(p, F) ==
  /\ pc[p] = "b_ledger"
  /\ \E f \in F :
       /\ ledger' = IF f THEN ledger ELSE [ledger EXCEPT ![rq[p].key] = rq[p].rid]
       /\ aged' = IF f THEN aged ELSE aged \ {rq[p].key}
       /\ Apply(p, Finished(lv[p], RespId("Created", 201, rq[p].rid)))
  /\ UNCHANGED <<tables, reservations, cache, lock, nextId, budget, rq, last>>

\* app.py 459 and 473-490 with s3_store.py 360-371: save_idempotency_key catches
\* ClientError only; when put_object raises anything else (botocore raises
\* EndpointConnectionError, ReadTimeoutError and the like, which are not
\* ClientError, for a connection that fails) the exception leaves it and
\* reaches the except clause of reserve, which releases the seats and answers 500
save_idempotency_key_raises(p) ==
  /\ pc[p] = "b_ledger"
  /\ Apply(p, CasCall(lv[p], "release", rq[p].table_id, rq[p].seats, "b_rb_exc"))
  /\ UNCHANGED <<tables, reservations, ledger, aged, cache, lock, nextId, budget, rq,
                 last>>

\* ----------------------------- reserve_seats_cas and release_seats_cas
\* release_seats_cas with the sign of the adjustment wrong
Adjusted_sign(op, doc, t, n) ==
  IF op = "reserve"
    THEN [doc EXCEPT ![t].seats_left = @ - n]
    ELSE [doc EXCEPT ![t].seats_left = Min(@ - n, doc[t].total)]

\* release_seats_cas without the clamp
Adjusted_noclamp(op, doc, t, n) ==
  IF op = "reserve"
    THEN [doc EXCEPT ![t].seats_left = @ - n]
    ELSE [doc EXCEPT ![t].seats_left = @ + n]

\* s3_store.py 290 and 323-327: the document the attempt wants to write
Adjusted(op, doc, t, n) ==
  IF op = "reserve"
    THEN [doc EXCEPT ![t].seats_left = @ - n]
    ELSE [doc EXCEPT ![t].seats_left = Min(@ + n, doc[t].total)]

\* s3_store.py 278 / 316: etag_before = self._head_tables_etag(); a ClientError
\* that is not PreconditionFailed ends the call with False
cas_head(p, F) ==
  /\ pc[p] = "cas_head"
  /\ \E f \in F :
       /\ IF f THEN Apply(p, CasReturn(rq[p], lv[p], FALSE))
               ELSE Apply(p, Goto("cas_get", [lv[p] EXCEPT !.etag = ETag(tables)]))
  /\ UNCHANGED <<tables, reservations, ledger, aged, cache, lock, nextId, budget, rq, last>>

\* s3_store.py 279-290 / 317-327: get_object, the tests, the change in memory
cas_get(p, F) ==
  /\ pc[p] = "cas_get"
  /\ \E f \in F :
       /\ LET l == lv[p] IN
          IF f \/ l.cast \notin DOMAIN tables
            THEN Apply(p, CasReturn(rq[p], l, FALSE))
          ELSE IF l.casop = "reserve" /\ tables[l.cast].seats_left < l.casn
            THEN Apply(p, CasReturn(rq[p], l, FALSE))
          ELSE Apply(p, Goto("cas_check",
                 [l EXCEPT !.data = Adjusted(l.casop, tables, l.cast, l.casn)]))
  /\ UNCHANGED <<tables, reservations, ledger, aged, cache, lock, nextId, budget, rq, last>>

\* the second HEAD with a loop that goes round again on every PreconditionFailed
cas_check_unbounded(p, F) ==
  /\ pc[p] = "cas_check"
  /\ \E f \in F :
       /\ LET l == lv[p] IN
          IF f THEN Apply(p, CasReturn(rq[p], l, FALSE))
          ELSE IF PreconditionFailed(l.etag, ETag(tables))
            THEN Apply(p, Goto("cas_head", l))
          ELSE Apply(p, Goto("cas_put", l))
  /\ UNCHANGED <<tables, reservations, ledger, aged, cache, lock, nextId, budget, rq, last>>

\* s3_store.py 255-260 inside 291 / 329, and 295-299 / 333-337: the second HEAD;
\* on PreconditionFailed the loop goes round again until `retries` attempts are spent
cas_check(p, F) ==
  /\ pc[p] = "cas_check"
  /\ \E f \in F :
       /\ LET l == lv[p] IN
          IF f THEN Apply(p, CasReturn(rq[p], l, FALSE))
          ELSE IF PreconditionFailed(l.etag, ETag(tables))
            THEN IF l.i + 1 < RETRIES
                   THEN Apply(p, Goto("cas_head", [l EXCEPT !.i = @ + 1]))
                   ELSE Apply(p, CasReturn(rq[p], l, FALSE))
          ELSE Apply(p, Goto("cas_put", l))
  /\ UNCHANGED <<tables, reservations, ledger, aged, cache, lock, nextId, budget, rq, last>>

\* s3_store.py 262-269 inside 291 / 329: put_object
cas_put(p, F) ==
  /\ pc[p] = "cas_put"
  /\ \E f \in F :
       /\ IF f THEN /\ Apply(p, CasReturn(rq[p], lv[p], FALSE))
                    /\ UNCHANGED tables
               ELSE /\ tables' = lv[p].data
                    /\ Apply(p, CasReturn(rq[p], lv[p], TRUE))
  /\ UNCHANGED <<reservations, ledger, aged, cache, lock, nextId, budget, rq, last>>

\* ---------------------------------------------------------------- cancel
\* app.py 512-524 with s3_store.py delete_reservation: delete_object succeeds
\* whether or not the object is there, and this worker's cache is cleared
delete_reservation(p, F) ==
  /\ pc[p] = "c_delete"
  /\ \E f \in F :
       /\ LET r == CHOOSE x \in lv[p].found : TRUE IN
          IF f THEN /\ Apply(p, Finished(lv[p], Resp("CancelFailed", 500)))
                    /\ UNCHANGED <<reservations, cache>>
          ELSE /\ reservations' = {x \in reservations : x.id # rq[p].rid}
               /\ cache' = _clear_all_reservations_cache(rq[p].worker)
               /\ Apply(p, CasCall(lv[p], "release", r.table_id, r.seats_taken,
                                   "c_release"))
  /\ UNCHANGED <<tables, ledger, aged, lock, nextId, budget, rq, last>>

\* ------------------------------------------------ update_reservation_details
\* app.py 601-603: the record as the handler rewrites it
Updated(r, q) == [r EXCEPT !.login_id = q.login, !.seats_taken = q.seats]

\* app.py 601-607 with s3_store.py 134-137 (get_reservation). The handler edits the
\* dict it found, which is an element of the cached list, then update_reservation
\* reads the stored object; a missing object or a ClientError gives False
update_reservation(p, F) ==
  /\ pc[p] = "u_write"
  /\ \E f \in F :
       /\ LET r == CHOOSE x \in lv[p].found : TRUE
              w == rq[p].worker
          IN /\ cache' = IF r \in cache[w].items
                           THEN [cache EXCEPT ![w].items = (@ \ {r}) \cup {Updated(r, rq[p])}]
                           ELSE cache
             /\ IF f \/ ~(\E x \in reservations : x.id = rq[p].rid)
                  THEN Apply(p, Rollback(lv[p], r.table_id, "u_rb_save",
                                         Resp("SaveFailed", 500)))
                  ELSE Apply(p, Goto("u_put", lv[p]))
  /\ UNCHANGED <<tables, reservations, ledger, aged, lock, nextId, budget, rq, last>>

\* s3_store.py 139-141 with save_reservation: existing.update(updated_data), put_object,
\* clear this worker's cache
u_put(p, F) ==
  /\ pc[p] = "u_put"
  /\ \E f \in F :
       /\ LET r == CHOOSE x \in lv[p].found : TRUE IN
          IF f THEN /\ Apply(p, Rollback(lv[p], r.table_id, "u_rb_save",
                                         Resp("SaveFailed", 500)))
                    /\ UNCHANGED <<reservations, cache>>
          ELSE /\ reservations' = {x \in reservations : x.id # rq[p].rid}
                                    \cup {Updated(r, rq[p])}
               /\ cache' = _clear_all_reservations_cache(rq[p].worker)
               /\ Apply(p, Finished(lv[p], Resp("Updated", 200)))
  /\ UNCHANGED <<tables, ledger, aged, lock, nextId, budget, rq, last>>

\* ------------------------------------------------------------ admin_resync
\* app.py 661-674: seats_left of every table recomputed from the list
Resynced(doc, rs) ==
  [t \in DOMAIN doc |-> [doc[t] EXCEPT !.seats_left = doc[t].total - Taken(rs, t)]]

\* app.py 656-674 with s3_store.py get_tables_data_with_etag
r_read(p, F) ==
  /\ pc[p] = "r_read"
  /\ \E f \in F :
       /\ IF f THEN Apply(p, Finished(lv[p], Resp("NoTablesData", 500)))
          ELSE Apply(p, Goto("r_head",
                 [lv[p] EXCEPT !.etag = ETag(tables),
                               !.data = Resynced(tables, lv[p].list.items)]))
  /\ UNCHANGED <<tables, reservations, ledger, aged, cache, lock, nextId, budget, rq, last>>

\* app.py 677-690 with s3_store.py 254-260
r_head(p, F) ==
  /\ pc[p] = "r_head"
  /\ \E f \in F :
       /\ IF f THEN Apply(p, Finished(lv[p], Resp("ServerError", 500)))
          ELSE IF PreconditionFailed(lv[p].etag, ETag(tables))
            THEN Apply(p, Finished(lv[p], Resp("Conflict", 409)))
          ELSE Apply(p, Goto("r_put", lv[p]))
  /\ UNCHANGED <<tables, reservations, ledger, aged, cache, lock, nextId, budget, rq, last>>

\* s3_store.py 262-269 inside app.py 678
r_put(p, F) ==
  /\ pc[p] = "r_put"
  /\ \E f \in F :
       /\ IF f THEN /\ Apply(p, Finished(lv[p], Resp("ServerError", 500)))
                    /\ UNCHANGED tables
               ELSE /\ tables' = lv[p].data
                    /\ Apply(p, Finished(lv[p], Resp("Resynced", 200)))
  /\ UNCHANGED <<reservations, ledger, aged, cache, lock, nextId, budget, rq, last>>

\* ------------------------------------------------------- specifications
NoFaults == {FALSE}
Faults   == BOOLEAN

\* one step of the handler process p is running
Step(p, F) ==
  \/ gar_check(p) \/ gar_lock(p) \/ gar_fetch(p, F) \/ gar_store(p)
  \/ get_idempotency_key(p, F) \/ get_tables_data_with_etag(p, F)
  \/ b_head(p, F) \/ b_put(p, F) \/ save_reservation(p, F) \/ save_idempotency_key(p, F)
  \/ cas_head(p, F) \/ cas_get(p, F) \/ cas_check(p, F) \/ cas_put(p, F)
  \/ delete_reservation(p, F)
  \/ update_reservation(p, F) \/ u_put(p, F)
  \/ r_read(p, F) \/ r_head(p, F) \/ r_put(p, F)

\* a request arrives at a worker of W, or a response leaves
Request(p, seq, W) ==
  \/ Finish(p, seq)
  \/ reserve(p, seq, W) \/ cancel(p, seq, W) \/ update_reservation_details(p, seq, W)
  \/ admin_resync(p, seq, W)

\* the worker process that handler thread p belongs to
Home(p) == ((p - 1) % NumWorkers) + 1

\* The service under load: requests of all four kinds overlap freely on the
\* workers; no S3 call fails.
Next ==
  \/ \E p \in Procs : Request(p, FALSE, {Home(p)}) \/ Step(p, NoFaults)
  \/ \E w \in Workers : Expire(w)

Spec == Init /\ [][Next]_vars

\* The service with one request at a time, sent to any worker by one client.
Client == CHOOSE p \in Procs : TRUE

\* ... and no S3 call fails
SeqNext ==
  \/ Request(Client, TRUE, Workers) \/ Step(Client, NoFaults)
  \/ \E w \in Workers : Expire(w)

SpecSeq == Init /\ [][SeqNext]_vars

\* ... and any S3 call may raise a ClientError
SeqFaultNext ==
  \/ Request(Client, TRUE, Workers) \/ Step(Client, Faults)
  \/ \E w \in Workers : Expire(w)

SpecSeqFault == Init /\ [][SeqFaultNext]_vars

\* Bookings only: every handler thread serves one POST /api/reserve, on any
\* worker, and the requests overlap freely; no S3 call fails.
BookNext ==
  \/ \E p \in Procs :
       \/ reserve(p, FALSE, Workers)
       \/ get_idempotency_key(p, NoFaults)
       \/ gar_check(p) \/ gar_lock(p) \/ gar_fetch(p, NoFaults) \/ gar_store(p)
       \/ get_tables_data_with_etag(p, NoFaults)
       \/ b_head(p, NoFaults) \/ b_put(p, NoFaults)
       \/ save_reservation(p, NoFaults) \/ save_idempotency_key(p, NoFaults)
  \/ \E w \in Workers : Expire(w)

SpecBook == Init /\ [][BookNext]_vars

\* A resync and bookings, each handler thread serving one request on any worker,
\* overlapping freely; no S3 call fails.
ResyncBookNext ==
  \/ \E p \in Procs :
       \/ reserve(p, FALSE, Workers) \/ admin_resync(p, FALSE, Workers)
       \/ get_idempotency_key(p, NoFaults)
       \/ gar_check(p) \/ gar_lock(p) \/ gar_fetch(p, NoFaults) \/ gar_store(p)
       \/ get_tables_data_with_etag(p, NoFaults)
       \/ b_head(p, NoFaults) \/ b_put(p, NoFaults)
       \/ save_reservation(p, NoFaults) \/ save_idempotency_key(p, NoFaults)
       \/ r_read(p, NoFaults) \/ r_head(p, NoFaults) \/ r_put(p, NoFaults)
  \/ \E w \in Workers : Expire(w)

SpecResyncBook == Init /\ [][ResyncBookNext]_vars

\* A caller of S3Store.reserve_seats_cas / release_seats_cas, seen from the store:
\* some handler asks for n seats of table t to be taken or given back
seats_cas(p) ==
  \E op \in {"reserve", "release"}, t \in Tables \cup DOMAIN tables,
     n \in 1..MAX_PER_BOOKING :
    /\ pc[p] = "idle"
    /\ rq' = [rq EXCEPT ![p] = [NoRq EXCEPT !.op = op, !.worker = Home(p),
                                            !.table_id = t, !.seats = n]]
    /\ Apply(p, CasCall(NoLv, op, t, n, "api"))
    /\ UNCHANGED <<tables, reservations, ledger, aged, cache, lock, nextId, budget, last>>

\* The seat adjustment protocol on its own: every handler thread makes one
\* adjustment after the other, the threads overlap freely; no S3 call fails.
CasNext ==
  \E p \in Procs :
    \/ seats_cas(p) \/ Finish(p, FALSE)
    \/ cas_head(p, NoFaults) \/ cas_get(p, NoFaults)
    \/ cas_check(p, NoFaults) \/ cas_put(p, NoFaults)

SpecCas == Init /\ [][CasNext]_vars

\* The store after two bookings of one seat each on table 1, by alice and by bob
BookedReservations == {Reservation(1, 1, 1, "alice"), Reservation(2, 1, 1, "bob")}
BookedTables       == Resynced(SeedTables, BookedReservations)

InitBooked ==
  /\ tables = BookedTables
  /\ reservations = BookedReservations
  /\ ledger = [k \in Keys |-> 0]
  /\ aged = {}
  /\ cache = [w \in Workers |-> ClearedCache]
  /\ lock = [w \in Workers |-> 0]
  /\ nextId = 3
  /\ budget = MaxOps
  /\ pc = [p \in Procs |-> "idle"]
  /\ rq = [p \in Procs |-> NoRq]
  /\ lv = [p \in Procs |-> NoLv]
  /\ resp = [p \in Procs |-> NoResp]
  /\ last = NoLast

\* Cancellations only: every handler thread serves one POST /api/cancel, on any
\* worker, and the requests overlap freely; no S3 call fails.
CancelNext ==
  \/ \E p \in Procs :
       \/ cancel(p, FALSE, Workers)
       \/ gar_check(p) \/ gar_lock(p) \/ gar_fetch(p, NoFaults) \/ gar_store(p)
       \/ delete_reservation(p, NoFaults)
       \/ cas_head(p, NoFaults) \/ cas_get(p, NoFaults)
       \/ cas_check(p, NoFaults) \/ cas_put(p, NoFaults)
  \/ \E w \in Workers : Expire(w)

SpecCancel == InitBooked /\ [][CancelNext]_vars

\* s3_store.py 152: the unlocked test `self.all_reservations_expiry > now` on
\* its own; the attribute all_reservations_cache is read by a later bytecode
gar_test(p) ==
  /\ pc[p] = "gar_check"
  /\ LET w == rq[p].worker IN
       IF cache[w].valid
         THEN Apply(p, Goto("gar_hit", lv[p]))
         ELSE Apply(p, Goto("gar_lock", [lv[p] EXCEPT !.behind = lock[w]]))
  /\ UNCHANGED <<tables, reservations, ledger, aged, cache, lock, nextId, budget, rq,
                 last>>

\* s3_store.py 154: `return self.all_reservations_cache`, whatever the attribute
\* holds by now
gar_hit(p) ==
  /\ pc[p] = "gar_hit"
  /\ LET w == rq[p].worker IN
       Apply(p, GarReturn(rq[p], lv[p], [present |-> cache[w].present,
                                          items |-> cache[w].items]))
  /\ UNCHANGED <<tables, reservations, ledger, aged, cache, lock, nextId, budget, rq,
                 last>>

\* The cancellations of SpecCancel with the two attribute reads of the unlocked
\* fast path of get_all_reservations as separate steps of a thread.
RaceNext ==
  \/ \E p \in Procs :
       \/ cancel(p, FALSE, Workers)
       \/ gar_test(p) \/ gar_hit(p) \/ gar_lock(p) \/ gar_fetch(p, NoFaults)
       \/ gar_store(p)
       \/ delete_reservation(p, NoFaults)
       \/ cas_head(p, NoFaults) \/ cas_get(p, NoFaults)
       \/ cas_check(p, NoFaults) \/ cas_put(p, NoFaults)
  \/ \E w \in Workers : Expire(w)

SpecRace == InitBooked /\ [][RaceNext]_vars

\* An update against moving seat counts: one handler thread serves
\* POST /api/admin/update_reservation requests one after the other, while the
\* other threads make seat adjustments for requests of their own; the steps
\* overlap freely and no S3 call fails.
UpdateNext ==
  \/ update_reservation_details(Client, FALSE, {Home(Client)})
  \/ gar_check(Client) \/ gar_lock(Client) \/ gar_fetch(Client, NoFaults)
  \/ gar_store(Client)
  \/ update_reservation(Client, NoFaults) \/ u_put(Client, NoFaults)
  \/ \E p \in Procs \ {Client} : seats_cas(p)
  \/ \E p \in Procs :
       \/ Finish(p, FALSE)
       \/ cas_head(p, NoFaults) \/ cas_get(p, NoFaults)
       \/ cas_check(p, NoFaults) \/ cas_put(p, NoFaults)
  \/ \E w \in Workers : Expire(w)

SpecUpdate == InitBooked /\ [][UpdateNext]_vars

\* Cancellations and updates of the stored reservations: every handler thread
\* serves one POST /api/cancel or one POST /api/admin/update_reservation on its
\* worker, and the requests overlap freely; no S3 call fails.
CancelUpdateNext ==
  \/ \E p \in Procs :
       \/ cancel(p, FALSE, {Home(p)})
       \/ update_reservation_details(p, FALSE, {Home(p)})
       \/ gar_check(p) \/ gar_lock(p) \/ gar_fetch(p, NoFaults) \/ gar_store(p)
       \/ delete_reservation(p, NoFaults)
       \/ update_reservation(p, NoFaults) \/ u_put(p, NoFaults)
       \/ cas_head(p, NoFaults) \/ cas_get(p, NoFaults)
       \/ cas_check(p, NoFaults) \/ cas_put(p, NoFaults)
  \/ \E w \in Workers : Expire(w)

SpecCancelUpdate == InitBooked /\ [][CancelUpdateNext]_vars

\* ------------------------------------------------------------ init_tables
\* tables/tables.json does not exist
NoTables == << >>

\* app.py 150-151: a worker process starts and runs init_tables
init_tables(p) ==
  /\ pc[p] = "idle"
  /\ rq' = [rq EXCEPT ![p] = [NoRq EXCEPT !.op = "init", !.worker = Home(p)]]
  /\ Apply(p, Goto("i_read", NoLv))
  /\ UNCHANGED <<tables, reservations, ledger, aged, cache, lock, nextId, budget, last>>

\* app.py 123-127 with s3_store.py get_tables_data: None when the object is
\* missing and also when get_object raises any other ClientError
i_read(p, F) ==
  /\ pc[p] = "i_read"
  /\ \E f \in F :
       /\ IF ~f /\ tables # NoTables
            THEN Apply(p, Finished(lv[p], Resp("TablesExist", 0)))
            ELSE Apply(p, Goto("i_put", lv[p]))
  /\ UNCHANGED <<tables, reservations, ledger, aged, cache, lock, nextId, budget, rq, last>>

\* app.py 129-144 with s3_store.py save_tables_data: the unconditional put_object
i_put(p, F) ==
  /\ pc[p] = "i_put"
  /\ \E f \in F :
       /\ IF f THEN /\ Apply(p, Finished(lv[p], Resp("SeedFailed", 0)))
                    /\ UNCHANGED tables
               ELSE /\ tables' = SeedTables
                    /\ Apply(p, Finished(lv[p], Resp("Seeded", 0)))
  /\ UNCHANGED <<reservations, ledger, aged, cache, lock, nextId, budget, rq, last>>

\* the bucket before the first start of the service
InitEmpty ==
  /\ tables = NoTables
  /\ reservations = {}
  /\ ledger = [k \in Keys |-> 0]
  /\ aged = {}
  /\ cache = [w \in Workers |-> ClearedCache]
  /\ lock = [w \in Workers |-> 0]
  /\ nextId = 1
  /\ budget = MaxOps
  /\ pc = [p \in Procs |-> "idle"]
  /\ rq = [p \in Procs |-> NoRq]
  /\ lv = [p \in Procs |-> NoLv]
  /\ resp = [p \in Procs |-> NoResp]
  /\ last = NoLast

\* Worker processes start (and restart) while seats are taken and given back;
\* any S3 call may raise a ClientError.
BootNext ==
  \E p \in Procs :
    \/ init_tables(p) \/ i_read(p, Faults) \/ i_put(p, Faults)
    \/ seats_cas(p) \/ Finish(p, FALSE)
    \/ cas_head(p, Faults) \/ cas_get(p, Faults)
    \/ cas_check(p, Faults) \/ cas_put(p, Faults)

SpecBoot == InitEmpty /\ [][BootNext]_vars

\* ------------------------------------------------- the retention window
\* 24 hours pass with no request under way. save_idempotency_key (s3_store.py
\* 360-371) puts the object without any expiry and nothing in the service removes
\* objects under idempotency/, so the bucket is as before; every entry is now
\* older than the window, and every cached list (5 seconds) has expired.
Retention ==
  /\ \A p \in Procs : pc[p] \in {"idle", "done"}
  /\ aged' = {k \in Keys : ledger[k] # 0}
  /\ aged' # aged
  /\ cache' = [w \in Workers |-> [cache[w] EXCEPT !.valid = FALSE]]
  /\ UNCHANGED <<tables, reservations, ledger, lock, nextId, budget, pc, rq, lv, resp,
                 last>>

\* One client books and replays its bookings, one request at a time on any
\* worker, over more than a day; no S3 call fails.
ReplayNext ==
  \/ reserve(Client, TRUE, Workers) \/ Finish(Client, TRUE)
  \/ get_idempotency_key(Client, NoFaults)
  \/ gar_check(Client) \/ gar_lock(Client) \/ gar_fetch(Client, NoFaults)
  \/ gar_store(Client)
  \/ get_tables_data_with_etag(Client, NoFaults)
  \/ b_head(Client, NoFaults) \/ b_put(Client, NoFaults)
  \/ save_reservation(Client, NoFaults) \/ save_idempotency_key(Client, NoFaults)
  \/ \E w \in Workers : Expire(w)
  \/ Retention

SpecReplay == Init /\ [][ReplayNext]_vars

\* One client books, one request at a time on any worker; the put_object of the
\* ledger entry may fail, with a ClientError or with another exception, and no
\* other S3 call fails.
LedgerFaultNext ==
  \/ reserve(Client, TRUE, Workers) \/ Finish(Client, TRUE)
  \/ get_idempotency_key(Client, NoFaults)
  \/ gar_check(Client) \/ gar_lock(Client) \/ gar_fetch(Client, NoFaults)
  \/ gar_store(Client)
  \/ get_tables_data_with_etag(Client, NoFaults)
  \/ b_head(Client, NoFaults) \/ b_put(Client, NoFaults)
  \/ save_reservation(Client, NoFaults)
  \/ save_idempotency_key(Client, Faults) \/ save_idempotency_key_raises(Client)
  \/ cas_head(Client, NoFaults) \/ cas_get(Client, NoFaults)
  \/ cas_check(Client, NoFaults) \/ cas_put(Client, NoFaults)
  \/ \E w \in Workers : Expire(w)

SpecLedgerFault == Init /\ [][LedgerFaultNext]_vars

\* One client books, one request at a time on one worker; the listing of
\* reservations/ and the get_object of the ledger entry may fail with a
\* ClientError, and no other S3 call fails.
ReadFaultNext ==
  \/ reserve(Client, TRUE, {Home(Client)}) \/ Finish(Client, TRUE)
  \/ get_idempotency_key(Client, Faults)
  \/ gar_check(Client) \/ gar_lock(Client) \/ gar_fetch(Client, Faults)
  \/ gar_store(Client)
  \/ get_tables_data_with_etag(Client, NoFaults)
  \/ b_head(Client, NoFaults) \/ b_put(Client, NoFaults)
  \/ save_reservation(Client, NoFaults) \/ save_idempotency_key(Client, NoFaults)
  \/ Expire(Home(Client))

SpecReadFault == Init /\ [][ReadFaultNext]_vars

\* ------------------------------------------- documents with several tables
\* tables.json with one table more than the requests of the other
\* specifications address, totals of Capacity - 1 or Capacity, and any
\* seats_left from 0 to the total
Docs ==
  [1..(NumTables + 1) ->
     {e \in [total : {Capacity - 1, Capacity}, seats_left : 0..Capacity] :
        e.seats_left <= e.total}]

InitDocs ==
  /\ tables \in Docs
  /\ reservations = {}
  /\ ledger = [k \in Keys |-> 0]
  /\ aged = {}
  /\ cache = [w \in Workers |-> ClearedCache]
  /\ lock = [w \in Workers |-> 0]
  /\ nextId = 1
  /\ budget = MaxOps
  /\ pc = [p \in Procs |-> "idle"]
  /\ rq = [p \in Procs |-> NoRq]
  /\ lv = [p \in Procs |-> NoLv]
  /\ resp = [p \in Procs |-> NoResp]
  /\ last = NoLast

\* One caller after the other takes seats of a table of such a document or
\* gives seats back; no S3 call fails.
AdjustNext ==
  \/ seats_cas(Client) \/ Finish(Client, FALSE)
  \/ cas_head(Client, NoFaults) \/ cas_get(Client, NoFaults)
  \/ cas_check(Client, NoFaults) \/ cas_put(Client, NoFaults)

SpecAdjust == InitDocs /\ [][AdjustNext]_vars

\* a document of two tables of Capacity - 1 seats each
InitIsolate ==
  /\ InitDocs
  /\ \A t \in DOMAIN tables : tables[t].total = Capacity - 1

\* The adjustments of such a two-table document by handler threads that
\* overlap freely; no S3 call fails.
IsolateNext ==
  \E p \in Procs :
    \/ seats_cas(p) \/ Finish(p, FALSE)
    \/ cas_head(p, NoFaults) \/ cas_get(p, NoFaults)
    \/ cas_check(p, NoFaults) \/ cas_put(p, NoFaults)

SpecIsolate == InitIsolate /\ [][IsolateNext]_vars

\* One client books and updates, one request at a time on any worker, and any
\* S3 call may raise a ClientError.
UpdateFaultNext ==
  \/ reserve(Client, TRUE, Workers) \/ update_reservation_details(Client, TRUE, Workers)
  \/ Finish(Client, TRUE)
  \/ get_idempotency_key(Client, Faults)
  \/ gar_check(Client) \/ gar_lock(Client) \/ gar_fetch(Client, Faults)
  \/ gar_store(Client)
  \/ get_tables_data_with_etag(Client, Faults)
  \/ b_head(Client, Faults) \/ b_put(Client, Faults)
  \/ save_reservation(Client, Faults) \/ save_idempotency_key(Client, Faults)
  \/ cas_head(Client, Faults) \/ cas_get(Client, Faults)
  \/ cas_check(Client, Faults) \/ cas_put(Client, Faults)
  \/ update_reservation(Client, Faults) \/ u_put(Client, Faults)
  \/ \E w \in Workers : Expire(w)

SpecUpdateFault == Init /\ [][UpdateFaultNext]_vars

\* ------------------------------------------------ the DynamoDB store
\* A caller of DynamoDBStore.reserve_seats / release_seats (ddb_store.py), seen
\* from the store, whose tables table holds one item per table
ddb_seats(p) ==
  \E op \in {"reserve", "release"}, t \in Tables, n \in 1..MAX_PER_BOOKING :
    /\ pc[p] = "idle"
    /\ rq' = [rq EXCEPT ![p] = [NoRq EXCEPT !.op = op, !.worker = Home(p),
                                            !.table_id = t, !.seats = n]]
    /\ Apply(p, Goto(IF op = "reserve" THEN "d_update" ELSE "d_get",
                     [NoLv EXCEPT !.casop = op, !.cast = t, !.casn = n]))
    /\ UNCHANGED <<tables, reservations, ledger, aged, cache, lock, nextId, budget, last>>

\* ddb_store.py 334-354: reserve_seats is one update_item, SET seats_left =
\* seats_left - :seats under the condition seats_left >= :seats
reserve_seats(p, F) ==
  /\ pc[p] = "d_update"
  /\ \E f \in F :
       LET t == lv[p].cast  n == lv[p].casn IN
       IF f \/ t \notin DOMAIN tables \/ tables[t].seats_left < n
         THEN /\ Apply(p, Finished(lv[p], Resp("False", 0)))
              /\ UNCHANGED tables
         ELSE /\ tables' = [tables EXCEPT ![t].seats_left = @ - n]
              /\ Apply(p, Finished(lv[p], Resp("True", 0)))
  /\ UNCHANGED <<reservations, ledger, aged, cache, lock, nextId, budget, rq, last>>

\* ddb_store.py 358-368: release_seats reads the item with get_item and computes
\* min(total, seats_left + seats_count) in memory
d_get(p, F) ==
  /\ pc[p] = "d_get"
  /\ \E f \in F :
       LET t == lv[p].cast  n == lv[p].casn IN
       IF f \/ t \notin DOMAIN tables
         THEN Apply(p, Finished(lv[p], Resp("False", 0)))
         ELSE Apply(p, Goto("d_set",
                [lv[p] EXCEPT !.data = Adjusted("release", tables, t, n)]))
  /\ UNCHANGED <<tables, reservations, ledger, aged, cache, lock, nextId, budget, rq, last>>

\* ddb_store.py 370-377: update_item SET seats_left = :new_seats, with no condition
d_set(p, F) ==
  /\ pc[p] = "d_set"
  /\ \E f \in F :
       LET t == lv[p].cast IN
       IF f THEN /\ Apply(p, Finished(lv[p], Resp("False", 0)))
                 /\ UNCHANGED tables
            ELSE /\ tables' = [tables EXCEPT ![t].seats_left = lv[p].data[t].seats_left]
                 /\ Apply(p, Finished(lv[p], Resp("True", 0)))
  /\ UNCHANGED <<reservations, ledger, aged, cache, lock, nextId, budget, rq, last>>

\* Seat adjustments of the DynamoDB store, overlapping freely; no call fails.
DdbNext ==
  \E p \in Procs :
    \/ ddb_seats(p) \/ Finish(p, FALSE)
    \/ reserve_seats(p, NoFaults) \/ d_get(p, NoFaults) \/ d_set(p, NoFaults)

SpecDdb == Init /\ [][DdbNext]_vars

\* ------------------------------------------------------------ properties
Done(p, op)  == pc[p] = "done" /\ rq[p].op = op
ValidSeats(n) == n >= 1 /\ n <= MAX_PER_BOOKING
SameLogin(a, b) == Lower(a) = Lower(b)

\* the store is as the request of p found it
Untouched(p) ==
  /\ tables = rq[p].pre.tables
  /\ reservations = rq[p].pre.reservations
  /\ ledger = rq[p].pre.ledger

RECURSIVE SeatsOf(_)
SeatsOf(ps) ==
  IF ps = {} THEN 0
  ELSE LET p == CHOOSE x \in ps : TRUE IN rq[p].seats + SeatsOf(ps \ {p})

\* the requests answered 201 for table t
Booked(t) == {p \in Procs : Done(p, "book") /\ resp[p].kind = "Created"
                            /\ rq[p].table_id = t}

Consistent(t) == Taken(reservations, t) = tables[t].total - tables[t].seats_left

\* the requests differ pairwise in Idempotency-Key and in login id
DistinctClients ==
  \A p, q \in Procs :
    (p # q /\ pc[p] # "idle" /\ pc[q] # "idle")
      => rq[p].key # rq[q].key /\ ~SameLogin(rq[p].raw, rq[q].raw)

\* C1 (SpecBook): bookings of different clients that overlap on a table that
\* starts with S seats left and sees nothing else never sell more than S seats:
\* the seats of the requests answered 201 add up to at most S.
C1_NoOversell ==
  DistinctClients => \A t \in Tables : SeatsOf(Booked(t)) <= SeedTables[t].seats_left

\* C2 (Spec): in every reachable state of the service, for every table,
\* 0 <= seats_left <= total.
C2_SeatsInRange ==
  \A t \in Tables : 0 <= tables[t].seats_left /\ tables[t].seats_left <= tables[t].total

\* C3 (SpecBook): two clients with different logins and keys each ask for the
\* last 3 seats of a table; once both are answered, exactly one got 201, the other
\* InsufficientSeats or Conflict, seats_left is 0 and the table has one record.
C3_LastSeats ==
  \A p, q \in Procs, t \in Tables :
    ( /\ p # q /\ Done(p, "book") /\ Done(q, "book")
      /\ rq[p].table_id = t /\ rq[q].table_id = t
      /\ SeedTables[t].seats_left = 3 /\ rq[p].seats = 3 /\ rq[q].seats = 3
      /\ rq[p].key # rq[q].key /\ ~SameLogin(rq[p].raw, rq[q].raw)
      /\ \A o \in Procs \ {p, q} : pc[o] = "idle" )
    => /\ Cardinality({x \in {p, q} : resp[x].kind = "Created"}) = 1
       /\ \A x \in {p, q} :
            resp[x].kind \in {"Created", "InsufficientSeats", "Conflict"}
       /\ tables[t].seats_left = 0
       /\ Cardinality({r \in reservations : r.table_id = t}) = 1

\* C4 (SpecSeqFault): a booking with the key and payload of the booking that was
\* answered 201 just before it, and whose ledger entry was stored, returns that
\* booking's reservation id and leaves inventory, records and ledger as they
\* were. (A booking whose ledger write failed is left out: the replay of its
\* key is a new booking by design.)
C4_ReplayAfterSuccess ==
  \A p \in Procs :
    ( /\ Done(p, "book")
      /\ rq[p].prev.rid # 0 /\ rq[p].prev.key = rq[p].key
      /\ rq[p].prev.table_id = rq[p].table_id /\ rq[p].prev.seats = rq[p].seats
      /\ rq[p].prev.raw = rq[p].raw
      /\ rq[p].pre.ledger[rq[p].key] = rq[p].prev.rid )
    => /\ resp[p].code \in {200, 201} /\ resp[p].rid = rq[p].prev.rid
       /\ Untouched(p)

\* C5 (SpecBook): bookings that carry the same Idempotency-Key, overlapping or
\* not, are answered with one reservation id, and leave one record and one seat
\* decrement behind.
C5_OneBookingPerKey ==
  \A p, q \in Procs :
    ( /\ p # q /\ Done(p, "book") /\ Done(q, "book") /\ rq[p].key = rq[q].key
      /\ rq[p].table_id = rq[q].table_id /\ rq[p].seats = rq[q].seats
      /\ rq[p].raw = rq[q].raw
      /\ resp[p].code \in {200, 201} /\ resp[q].code \in {200, 201}
      /\ \A o \in Procs \ {p, q} : pc[o] = "idle" )
    => /\ resp[p].rid = resp[q].rid
       /\ Cardinality(reservations) = 1
       /\ tables[rq[p].table_id].seats_left =
            SeedTables[rq[p].table_id].seats_left - rq[p].seats

\* C6 (SpecSeq): a booking under a fresh key, for seats the table has, that
\* starts when a record with the same login id (ignoring case) is stored is
\* answered DuplicateLogin and changes neither inventory, records nor ledger.
C6_DuplicateLoginRejected ==
  \A p \in Procs :
    ( /\ Done(p, "book") /\ ValidSeats(rq[p].seats)
      /\ rq[p].pre.ledger[rq[p].key] = 0
      /\ rq[p].pre.tables[rq[p].table_id].seats_left >= rq[p].seats
      /\ \E r \in rq[p].pre.reservations : SameLogin(r.login_id, rq[p].raw) )
    => /\ resp[p] = Resp("DuplicateLogin", 409)
       /\ Untouched(p)

\* C7 (Spec): no two stored reservation records have login ids that are equal
\* ignoring case.
C7_UniqueLogins ==
  \A r1, r2 \in reservations : r1 # r2 => ~SameLogin(r1.login_id, r2.login_id)

C9_ConsistentWhenQuiet ==
  (\A p \in Procs : pc[p] \in {"idle", "done"}) => \A t \in Tables : Consistent(t)

\* C10 (SpecSeq): when a resync that ran alone is answered with success, every
\* table has seats_left = total - sum(seats_taken of its stored records).
C10_ResyncRestores ==
  \A p \in Procs :
    (Done(p, "resync") /\ resp[p].kind = "Resynced") => \A t \in Tables : Consistent(t)

\* C11 (SpecResyncBook): when one resync and one booking, overlapping or not,
\* have both been answered and nothing else ran, either the resync was answered
\* Conflict or every table has seats_left = total - sum(seats_taken of its
\* records): the resync did not hand back the seats of the booking.
C11_ResyncSafeWithBooking ==
  \A p, q \in Procs :
    ( /\ Done(p, "resync") /\ Done(q, "book")
      /\ \A o \in Procs \ {p, q} : pc[o] = "idle" )
    => \/ resp[p].kind = "Conflict"
       \/ \A t \in Tables : Consistent(t)

\* the labels at which a handler is about to put tables/tables.json
PutLabels == {"b_put", "cas_put", "r_put"}

\* C12 (SpecBook): whenever a save_tables_data_cas puts tables/tables.json, the
\* ETag of the stored document at that moment is the etag_before it was given.
C12_WriteOnlyIfVersionMatches ==
  [][\A p \in Procs :
       (pc[p] \in PutLabels /\ pc'[p] # pc[p] /\ tables' = lv[p].data)
         => ETag(tables) = lv[p].etag]_vars

\* C13 (SpecCas): no adjustment that reports success overwrites another: the
\* document a reserve_seats_cas / release_seats_cas puts is the document stored at
\* that moment with its own n seats taken off (given back, up to total) on its
\* table. Hence the final seats_left is the initial one minus the seats reserved
\* plus the seats released.
C13_NoLostUpdate ==
  [][\A p \in Procs :
       (pc[p] = "cas_put" /\ pc'[p] # pc[p])
         => tables' = Adjusted(lv[p].casop, tables, lv[p].cast, lv[p].casn)]_vars

\* C14 (SpecSeqFault): in every booking the step that reads the ledger comes
\* first and writes nothing, and an entry is put into the ledger only for a
\* reservation id whose record is already stored; so no ledger entry names a
\* reservation that was never created.
C14_LedgerOrdering ==
  [][ /\ \A p \in Procs :
           (rq[p].op = "book" /\ pc'[p] # pc[p] /\ tables' # tables)
             => pc[p] \in PutLabels
      /\ \A p \in Procs :
           pc[p] = "b_idem" => (tables' = tables /\ reservations' = reservations)
      /\ \A k \in Keys :
           ledger'[k] # ledger[k] => \E r \in reservations : r.id = ledger'[k] ]_vars

C14_Witness ==
  \E p \in Procs :
    /\ Done(p, "book") /\ resp[p].kind = "Created"
    /\ rq[p].pre.ledger[rq[p].key] = 0 /\ ledger[rq[p].key] = rq[p].rid
    /\ \E r \in reservations : r.id = rq[p].rid

\* C15 (SpecSeqFault): a booking whose save_reservation fails calls
\* release_seats_cas for its table and seats and is answered with a failure;
\* when the put of that release goes through, inventory, records and ledger are
\* as the request found them.
C15_Compensation ==
  [][\A p \in Procs :
       /\ (pc[p] = "b_save" /\ pc'[p] # pc[p] /\ reservations' = reservations)
            => /\ pc'[p] = "cas_head" /\ lv'[p].casop = "release"
               /\ lv'[p].cast = rq[p].table_id /\ lv'[p].casn = rq[p].seats
       /\ (lv[p].cret = "b_rb_save" /\ pc'[p] = "done")
            => resp'[p].code = 500
       /\ (lv[p].cret = "b_rb_save" /\ pc[p] = "cas_put" /\ tables' # tables)
            => /\ tables' = rq[p].pre.tables
               /\ reservations' = rq[p].pre.reservations
               /\ ledger' = rq[p].pre.ledger ]_vars

C15_Witness ==
  \E p \in Procs :
    /\ Done(p, "book") /\ resp[p] = Resp("SaveFailed", 500) /\ rq[p].rid # 0
    /\ rq[p].pre.tables[rq[p].table_id].seats_left < Capacity
    /\ Untouched(p)

\* the answers of a booking that failed at the seat-reservation step: table not
\* found, not enough seats, ETag changed, or an S3 error in save_tables_data_cas
SeatStepFailures == {Resp("TableNotFound", 404), Resp("InsufficientSeats", 409),
                     Resp("Conflict", 409), Resp("ServerError", 500)}

\* C16 (SpecSeqFault): a booking that failed at the seat-reservation step has
\* written nothing: inventory, records and ledger are as the request found them.
C16_SeatStepFailureWritesNothing ==
  \A p \in Procs :
    (Done(p, "book") /\ resp[p] \in SeatStepFailures) => Untouched(p)

\* a booking for more seats than its table has left, of a table with seats taken,
\* under a key the ledger does not hold and a login id no stored record has
AsksTooMuch(p) ==
  /\ Done(p, "book")
  /\ rq[p].seats > rq[p].pre.tables[rq[p].table_id].seats_left
  /\ rq[p].pre.tables[rq[p].table_id].seats_left < rq[p].pre.tables[rq[p].table_id].total
  /\ rq[p].pre.ledger[rq[p].key] = 0
  /\ ~(\E r \in rq[p].pre.reservations : SameLogin(r.login_id, rq[p].raw))

\* C17 as claimed (SpecSeqFault): such a booking is answered InsufficientSeats
\* and leaves seats_left as it was.
C17_TooManySeatsInsufficient ==
  \A p \in Procs :
    AsksTooMuch(p)
      => /\ resp[p] = Resp("InsufficientSeats", 409)
         /\ tables[rq[p].table_id].seats_left =
              rq[p].pre.tables[rq[p].table_id].seats_left

\* C17 as amended (SpecSeqFault): such a booking is rejected and leaves
\* inventory, records and ledger as they were; when it asks for more than
\* MAX_PER_BOOKING seats (8 is more than 3) the answer is 400 "Invalid seat
\* count", not InsufficientSeats.
C17_TooManySeatsRejected ==
  \A p \in Procs :
    AsksTooMuch(p)
      => /\ resp[p].code \notin {200, 201}
         /\ rq[p].seats > MAX_PER_BOOKING => resp[p] = Resp("BadRequest", 400)
         /\ Untouched(p)

C17_Witness ==
  \E p \in Procs :
    /\ AsksTooMuch(p) /\ rq[p].seats > MAX_PER_BOOKING
    /\ resp[p] = Resp("BadRequest", 400)
    /\ Untouched(p)

\* a record with that id is among the records rs
Stored(rs, id) == \E r \in rs : r.id = id

C19_OneReleasePerCancel ==
  \A r \in BookedReservations :
    ( /\ \A p \in Procs : pc[p] \in {"idle", "done"}
      /\ \A p \in Procs : pc[p] = "done" => (rq[p].op = "cancel" /\ rq[p].rid = r.id)
      /\ \E p \in Procs : Done(p, "cancel") /\ resp[p].code = 200 )
    => tables[r.table_id].seats_left =
         BookedTables[r.table_id].seats_left + r.seats_taken

\* app.py 423 and 580: what book() and updateDetails() answer when the table has
\* too few seats left
InsufficientOutcomes == {Resp("InsufficientSeats", 409), Resp("NotEnoughOrConflict", 409)}

\* C20: whenever book() or updateDetails() rejects a request because of a
\* concurrency conflict (the version check before the write fails in book(), or
\* the last retry of the seat adjustment fails it in updateDetails()), the
\* outcome sent to the caller is none of the outcomes sent for insufficient seats.
C20_ConflictDistinguishable ==
  [][\A p \in Procs :
       ( /\ \/ pc[p] = "b_head"
            \/ pc[p] = "cas_check" /\ lv[p].cret = "u_seat" /\ lv[p].casop = "reserve"
         /\ PreconditionFailed(lv[p].etag, ETag(tables))
         /\ pc'[p] = "done" )
       => resp'[p] \notin InsufficientOutcomes]_vars

\* C21: single-flight. A caller of get_all_reservations that found the cache
\* expired while another caller of its process was fetching under the lock
\* performs no enumeration of its own: once it has the lock it returns the
\* list the other caller installed.
C21_SingleFlight ==
  [][\A p \in Procs :
       (pc[p] = "gar_lock" /\ lv[p].behind # 0) => pc'[p] # "gar_fetch"]_vars

\* the records with id `id` in the live cached list of worker w
CachedOf(w, id) == {r \in cache[w].items : r.id = id}

\* C22: once a handler has returned from a successful create, update or delete of
\* a reservation record, a live cached list of its process is not the list from
\* before the mutation: it holds the created record while that is stored, it
\* holds the updated record as updated while that is stored so, and it does not
\* hold the deleted record.
C22_MutationInvalidatesCache ==
  \A p \in Procs :
    (pc[p] = "done" /\ cache[rq[p].worker].valid)
    => LET w == rq[p].worker IN
       /\ (resp[p].kind = "Created" /\ Stored(reservations, resp[p].rid))
            => CachedOf(w, resp[p].rid) # {}
       /\ (resp[p].kind = "Updated"
             /\ \E r \in reservations : r.id = rq[p].rid /\ r = Updated(r, rq[p]))
            => \A c \in CachedOf(w, rq[p].rid) : c = Updated(c, rq[p])
       /\ resp[p].kind \in {"Cancelled", "CancelledReleaseFailed"}
            => CachedOf(w, rq[p].rid) = {}

\* C23: init_tables writes tables/tables.json only when no inventory exists, and
\* what it writes is the default inventory; it never overwrites an existing
\* document, whether its existence check failed with a storage error or other
\* workers are starting or adjusting seats at the same time. (A step of
\* init_tables leaves the document as it is, or creates the default one where
\* there was none.)
C23_SeedOnlyWhenAbsent ==
  [][\A p \in Procs :
       (pc[p] \in {"i_read", "i_put"} /\ pc'[p] # pc[p])
       => \/ tables' = tables
          \/ tables = NoTables /\ tables' = SeedTables]_vars

\* C24: the ledger entry of a key is created by the first successful booking
\* under that key; while it is younger than 24 hours a lookup of the key returns
\* it; once the 24 hours have passed a lookup no longer returns it; and no
\* operation removes it before.
C24_LedgerLifecycle ==
  [][\A p \in Procs :
       LET k == rq[p].key IN
       /\ (pc[p] = "b_ledger" /\ pc'[p] = "done") => ledger'[k] = rq[p].rid
       /\ (pc[p] = "b_idem" /\ pc'[p] # pc[p] /\ ledger[k] # 0 /\ k \notin aged)
            => resp'[p] = RespId("AlreadyProcessed", 200, ledger[k])
       /\ (pc[p] = "b_idem" /\ pc'[p] # pc[p] /\ k \in aged)
            => resp'[p].kind # "AlreadyProcessed"
       /\ \A j \in Keys : (ledger[j] # 0 /\ j \notin aged) => ledger'[j] # 0]_vars

\* C25: a booking whose record was written and whose ledger write failed is
\* still answered 201 with the reservation id, its record stays stored, and the
\* inventory keeps its decrement: seats_left of its table is what the request
\* found minus its seats, so it stays total minus the seats of the stored
\* records when it was so before.
C25_LedgerFailureTolerated ==
  \A p \in Procs :
    ( /\ Done(p, "book") /\ rq[p].rid # 0
      /\ rq[p].pre.ledger[rq[p].key] = 0 /\ ledger[rq[p].key] = 0 )
    => LET t == rq[p].table_id IN
       /\ resp[p] = RespId("Created", 201, rq[p].rid)
       /\ Stored(reservations, rq[p].rid)
       /\ tables[t].seats_left = rq[p].pre.tables[t].seats_left - rq[p].seats
       /\ (Taken(rq[p].pre.reservations, t)
             = rq[p].pre.tables[t].total - rq[p].pre.tables[t].seats_left)
            => Consistent(t)

\* C26: when the inventory write of a booking meets a changed version, the
\* booking goes back to its read step as long as attempts are left in the retry
\* budget (lv.i counts the attempts already spent), and it is answered Conflict
\* only when the last attempt met the conflict.
C26_BookRetriesOnConflict ==
  [][\A p \in Procs :
       ( /\ pc[p] = "b_head" /\ pc'[p] # pc[p]
         /\ PreconditionFailed(lv[p].etag, ETag(tables)) )
       => IF lv[p].i + 1 < RETRIES
            THEN pc'[p] = "b_read"
            ELSE resp'[p] = Resp("Conflict", 409)]_vars

\* the steps of one attempt of reserve_seats_cas / release_seats_cas, in order
CasLabels == {"cas_head", "cas_get", "cas_check", "cas_put"}
CasStep(label) ==
  CASE label = "cas_head" -> 0 [] label = "cas_get" -> 1
    [] label = "cas_check" -> 2 [] OTHER -> 3

\* the steps a call at `label` of attempt i can still make, at most
CasMeasure(label, i) == 4 * (RETRIES - i) - CasStep(label)

\* the call of p returns False to its caller and has written nothing
ReturnsFalse(p) ==
  /\ pc'[p] = "done" /\ resp'[p] = Resp("False", 0) /\ tables' = tables

\* C27: reserve_seats_cas and release_seats_cas always terminate. A call is in
\* one of at most RETRIES attempts; every step of it either ends the call or
\* leaves fewer steps to go; it starts another attempt only after a version
\* conflict; it returns False without writing when the table is absent or, for
\* a reservation, the seats are insufficient; and it returns False when its last
\* attempt meets a conflict.
C27_CasTerminates ==
  [][\A p \in Procs :
       (pc[p] \in CasLabels /\ lv[p].cret = "api" /\ <<pc[p], lv[p]>> # <<pc'[p], lv'[p]>>)
       => LET l == lv[p] IN
          /\ l.i < RETRIES
          /\ \/ pc'[p] = "done"
             \/ /\ pc'[p] \in CasLabels
                /\ CasMeasure(pc'[p], lv'[p].i) < CasMeasure(pc[p], l.i)
                /\ CasMeasure(pc'[p], lv'[p].i) > 0
          /\ (pc'[p] = "cas_head")
               => /\ pc[p] = "cas_check" /\ PreconditionFailed(l.etag, ETag(tables))
                  /\ lv'[p].i = l.i + 1
          /\ (pc[p] = "cas_get"
                /\ \/ l.cast \notin DOMAIN tables
                   \/ l.casop = "reserve" /\ tables[l.cast].seats_left < l.casn)
               => ReturnsFalse(p)
          /\ (pc[p] = "cas_check" /\ PreconditionFailed(l.etag, ETag(tables))
                /\ l.i + 1 = RETRIES)
               => ReturnsFalse(p) ]_vars

\* the last attempt of a call is about to meet a conflict
C27_Witness ==
  \E p \in Procs :
    /\ pc[p] = "cas_check" /\ lv[p].cret = "api" /\ lv[p].i = RETRIES - 1
    /\ PreconditionFailed(lv[p].etag, ETag(tables))

\* C28: a successful releaseSeats(t, n) writes the document it read with
\* seats_left of table t set to min(seats_left + n, total) and with total and
\* every other table's entry as read; so releasing the same seats twice never
\* leaves seats_left above total.
C28_ReleaseClamped ==
  [][\A p \in Procs :
       LET l == lv[p]  t == l.cast IN
       /\ (pc[p] = "cas_get" /\ l.casop = "release" /\ pc'[p] = "cas_check")
            => /\ lv'[p].data[t].seats_left
                    = Min(tables[t].seats_left + l.casn, tables[t].total)
               /\ lv'[p].data[t].total = tables[t].total
               /\ \A u \in DOMAIN tables \ {t} : lv'[p].data[u] = tables[u]
               /\ DOMAIN lv'[p].data = DOMAIN tables
       /\ (pc[p] = "cas_put" /\ l.casop = "release" /\ resp'[p] = Resp("True", 0))
            => /\ tables' = l.data
               /\ \A u \in DOMAIN tables' : tables'[u].seats_left <= tables'[u].total
    ]_vars

\* a release has succeeded whose seats did not all fit under the total, on a
\* document whose other table is not full
C28_Witness ==
  \E p \in Procs :
    /\ Done(p, "release") /\ resp[p] = Resp("True", 0)
    /\ tables[rq[p].table_id].seats_left = tables[rq[p].table_id].total
    /\ rq[p].seats = MAX_PER_BOOKING
    /\ \E u \in DOMAIN tables : u # rq[p].table_id /\ tables[u].seats_left < tables[u].total

\* the call that undoes the seat change of the update of p
Compensating(p) ==
  /\ pc[p] \in CasLabels /\ lv[p].cret \in {"u_dup", "u_rb_save"}
  /\ lv[p].casop = (IF lv[p].diff > 0 THEN "release" ELSE "reserve")
  /\ lv[p].casn = (IF lv[p].diff > 0 THEN lv[p].diff ELSE 0 - lv[p].diff)

\* C29 (one request at a time): an update that fails with DuplicateLogin or
\* with the storage error of its write, after its seat change went through,
\* fails out of the call that reverses the change; and when the write of that
\* call goes through, seats_left of every table is what the update found and
\* the stored records are what it found.
C29_UpdateCompensates ==
  [][\A p \in Procs :
       /\ ( /\ rq[p].op = "update" /\ lv[p].applied
            /\ pc[p] # "done" /\ pc'[p] = "done"
            /\ resp'[p].kind \in {"DuplicateLogin", "SaveFailed"} )
          => Compensating(p)
       /\ ( /\ rq[p].op = "update" /\ lv[p].applied
            /\ Compensating(p) /\ pc[p] = "cas_put" /\ tables' = lv[p].data )
          => /\ tables' = rq[p].pre.tables
             /\ reservations' = rq[p].pre.reservations ]_vars

\* the record with id `id` among rs (ids are unique)
RecordOf(rs, id) == CHOOSE r \in rs : r.id = id

\* C30 (one request at a time): a successful update of a stored reservation
\* from c seats to n seats changes seats_left of its table by exactly c - n and
\* stores seats_taken = n, so seats_left stays total minus the seats of the
\* stored records when it was so before; and an update that asks for more
\* additional seats than are left is rejected with inventory and records as
\* they were.
C30_UpdateAdjustsSeats ==
  \A p \in Procs :
    (Done(p, "update") /\ Stored(rq[p].pre.reservations, rq[p].rid))
    => LET old == RecordOf(rq[p].pre.reservations, rq[p].rid)
           t   == old.table_id
           c   == old.seats_taken
           n   == rq[p].seats
       IN /\ resp[p].kind = "Updated"
               => /\ tables[t].seats_left = rq[p].pre.tables[t].seats_left + c - n
                  /\ Stored(reservations, rq[p].rid)
                  /\ RecordOf(reservations, rq[p].rid).seats_taken = n
                  /\ (Taken(rq[p].pre.reservations, t)
                        = rq[p].pre.tables[t].total - rq[p].pre.tables[t].seats_left)
                       => Consistent(t)
          /\ (ValidSeats(n) /\ n - c > rq[p].pre.tables[t].seats_left)
               => /\ resp[p].kind # "Updated"
                  /\ tables = rq[p].pre.tables
                  /\ reservations = rq[p].pre.reservations

\* C31: in the DynamoDB store no seat adjustment overwrites another one. The
\* write of a release_seats of n seats leaves seats_left of its table at the
\* value it has at that moment plus n (at most total), and the write of a
\* reserve_seats leaves it at that value minus n, whatever ran since the
\* adjustment began.
C31_DdbNoLostUpdate ==
  [][\A p \in Procs :
       LET t == lv[p].cast  n == lv[p].casn IN
       /\ (pc[p] = "d_set" /\ resp'[p] = Resp("True", 0))
            => tables' = Adjusted("release", tables, t, n)
       /\ (pc[p] = "d_update" /\ resp'[p] = Resp("True", 0))
            => tables' = Adjusted("reserve", tables, t, n) ]_vars

\* C32 (one request at a time): every stored reservation record has
\* 1 <= seats_taken <= MAX_PER_BOOKING in every reachable state, and a booking
\* or an update with a seat count outside that range is answered BadRequest at
\* once, before any access to the store: it is never at a step of its handler,
\* and inventory, records and ledger are as it found them.
C32_SeatsTakenInRange ==
  /\ \A r \in reservations : ValidSeats(r.seats_taken)
  /\ \A p \in Procs :
       (pc[p] # "idle" /\ rq[p].op \in {"book", "update"} /\ ~ValidSeats(rq[p].seats))
       => /\ pc[p] = "done"
          /\ resp[p] = Resp("BadRequest", 400)
          /\ Untouched(p)

\* an update asking for 0 seats of a stored reservation has been rejected
C32_Witness ==
  \E p \in Procs :
    /\ Done(p, "update") /\ rq[p].seats = 0 /\ Stored(reservations, rq[p].rid)
    /\ resp[p] = Resp("BadRequest", 400)

\* C33: a seat adjustment of table A that succeeds leaves the persisted
\* seats_left of every other table B at the value that was last committed for
\* B, also when an adjustment of B was committed while the one of A was under way.
C33_CrossTableIsolation ==
  [][\A p \in Procs :
       (pc[p] = "cas_put" /\ resp'[p] = Resp("True", 0))
       => \A u \in DOMAIN tables \ {lv[p].cast} :
            tables'[u].seats_left = tables[u].seats_left ]_vars

\* the attempt of p is rejected by the test of save_tables_data_cas
Rejected(p) == pc[p] = "cas_check" /\ pc'[p] \notin {"cas_check", "cas_put"}

\* C34 (SpecCas, no S3 call fails): an attempt is rejected as a version
\* conflict only if the stored inventory is no longer the document its ETag was
\* taken from, and the stored inventory changes only by the put of a thread that
\* passed its own test: a write of another thread was committed after the
\* rejected attempt took its ETag, so contending attempts are never all
\* rejected without one of them having written.
C34_ConflictNeedsCommit ==
  [][ /\ \A p \in Procs : Rejected(p) => tables # lv[p].etag[2]
      /\ tables' # tables
           => \E q \in Procs : /\ pc[q] = "cas_put" /\ pc'[q] # pc[q]
                                /\ tables' = lv[q].data ]_vars

\* an attempt was rejected and is in its second round, after the adjustment
\* of the other thread went through
C34_Witness ==
  \E p, q \in Procs :
    /\ p # q /\ pc[p] = "cas_head" /\ lv[p].i >= 1
    /\ Done(q, rq[q].op) /\ resp[q] = Resp("True", 0)
    /\ tables # SeedTables

\* C35: a get_all_reservations that enumerated reservations/ before a record
\* was created or deleted by a request of its process does not install that
\* list once the request has returned: at the moment a list is installed as
\* the live cache, it holds no record a returned cancel of the process
\* deleted, and it holds every stored record a returned booking of the process
\* created.
C35_NoStaleInstall ==
  [][\A p \in Procs :
       pc[p] = "gar_store"
       => \A q \in Procs \ {p} :
            (pc[q] = "done" /\ rq[q].worker = rq[p].worker)
            => /\ resp[q].kind \in {"Cancelled", "CancelledReleaseFailed"}
                    => \A r \in cache'[rq[p].worker].items : r.id # rq[q].rid
               /\ (resp[q].kind = "Created" /\ Stored(reservations, resp[q].rid))
                    => \E r \in cache'[rq[p].worker].items : r.id = resp[q].rid ]_vars

\* C36: get_all_reservations always returns a list of records, never None,
\* also while another thread of the process clears the cache in
\* save_reservation or delete_reservation: what the fast path returns is a list.
C36_AlwaysAList ==
  [][\A p \in Procs :
       (pc[p] = "gar_hit" /\ pc'[p] # "gar_hit") => cache[rq[p].worker].present ]_vars

\* C37 (SpecReadFault): a failure of the listing of reservations or of the
\* read of the ledger entry never makes a booking create a record for a login
\* id that already has one, nor a record under an Idempotency-Key that was
\* processed: whenever save_reservation stores a new record, no stored record
\* has that login id (ignoring case) and the ledger has no entry for the key.
C37_ReadFailureNoDuplicate ==
  [][\A p \in Procs :
       (pc[p] = "b_save" /\ reservations' # reservations)
       => /\ \A r \in reservations : ~SameLogin(r.login_id, rq[p].raw)
          /\ ledger[rq[p].key] = 0 ]_vars

\* C38 (SpecCancelUpdate): a reservation a cancel deleted is not created again
\* by an update of the same reservation that overlaps with it: when the cancel
\* has returned success with the seats released and the update has returned
\* too, no record with that id is stored.
C38_CancelledStaysDeleted ==
  \A p, q \in Procs :
    ( /\ Done(p, "cancel") /\ resp[p] = Resp("Cancelled", 200)
      /\ Done(q, "update") /\ rq[q].rid = rq[p].rid )
    => ~Stored(reservations, rq[p].rid)

\* C39 (SpecUpdateFault): the compensation of an update reverses only a seat
\* change that was applied: when the update of a seat decrease ends in
\* DuplicateLogin or in the failure of its record write, its rollback writes a
\* lower seats_left only if the release_seats_cas at the start of the update
\* had succeeded.
C39_RollbackOnlyApplied ==
  [][\A p \in Procs :
       ( /\ Compensating(p) /\ lv[p].diff < 0
         /\ pc[p] = "cas_put" /\ tables' # tables )
       => lv[p].applied ]_vars

\* C40 (one request at a time): the error path of a booking gives seats back
\* only when the decrement of this booking was committed: a booking that ends
\* in a failure leaves seats_left of no table higher than the request found
\* it, whichever S3 call failed.
C40_FailedBookingNeverAddsSeats ==
  \A p \in Procs :
    (Done(p, "book") /\ resp[p].code \notin {200, 201})
    => \A t \in DOMAIN tables :
         tables[t].seats_left <= rq[p].pre.tables[t].seats_left

====
